---- MODULE Spec2Model ----
(***************************************************************************)
(* A model of voicevox_ros2/tts_node.py: the asset searches, the start-up  *)
(* of VoicevoxTTSNode, the decoding of a tts_text payload and the          *)
(* synthesize-then-play handler, as run by main().                         *)
(*                                                                         *)
(* A Python str is a sequence of one-character strings.                    *)
(***************************************************************************)
EXTENDS Integers, Sequences, FiniteSets, TLC

VARIABLES
    fs,                 \* the directory tree under engine_dir
    main_pc,            \* position of main() / VoicevoxTTSNode.__init__
    rclpy_state,        \* "uninit" | "ok" | "shutdown"
    node_state,         \* "none" | "alive" | "destroyed"
    default_style_id,   \* self.default_style_id
    paths,              \* the three paths found so far
    engine,             \* what of the VOICEVOX engine has been built
    init_error,         \* the exception __init__ is re-raising, or "none"
    subscribed,         \* the tts_text subscription exists
    queue,              \* payloads waiting in the subscription
    running,            \* frames of on_text_received being executed
    last                \* what the handler call that returned last did

vars == <<fs, main_pc, rclpy_state, node_state, default_style_id, paths,
          engine, init_error, subscribed, queue, running, last>>

(***************************************************************************)
(* Bounds of the model.                                                    *)
(***************************************************************************)
MaxLen == 4         \* longest arbitrary payload
MaxText == 3        \* longest text after a well-formed "[n] " prefix
MaxStyle == 1       \* the style_id parameter ranges over 0..MaxStyle
MaxQueue == 2       \* payloads in flight in the subscription
MaxEntries == 3     \* entries under engine_dir
MaxTail == 2        \* longest text after a second bracket token

(***************************************************************************)
(* Program constants.                                                      *)
(***************************************************************************)
QueueDepth == 10

\* Onnxruntime.LIB_VERSIONED_FILENAME: a file name fixed by voicevox_core.
LIB_VERSIONED_FILENAME == "libvoicevox_onnxruntime.so"
target_dir_name == "open_jtalk_dic_utf_8-1.11"
vvm_file == "0.vvm"

(***************************************************************************)
(* Characters.  \s and \d of a str pattern, and "." without re.DOTALL.     *)
(***************************************************************************)
Whitespace == {" ", "\t", "\n", "\r", "\f"}
DigitChars == <<"0", "1", "2", "3", "4", "5", "6", "7", "8", "9">>
Digit == {DigitChars[i] : i \in 1..10}
IsSpace(c) == c \in Whitespace
IsDigit(c) == c \in Digit
IsDot(c) == c # "\n"

\* The characters payloads are drawn from.
Chars == {" ", "\n", "[", "]", "0", "2", "a"}

RECURSIVE Strings(_)
Strings(n) ==
    IF n = 0 THEN {<< >>}
    ELSE LET shorter == Strings(n - 1)
         IN  shorter \cup {Append(s, c) : s \in {t \in shorter : Len(t) = n - 1}, c \in Chars}

DigitVal(c) == (CHOOSE i \in 1..10 : DigitChars[i] = c) - 1

\* int(s) of a non-empty string of decimal digits.
RECURSIVE int(_)
int(s) ==
    IF Len(s) = 0 THEN 0
    ELSE 10 * int(SubSeq(s, 1, Len(s) - 1)) + DigitVal(s[Len(s)])

\* str(n) of n >= 0.
RECURSIVE str(_)
str(n) ==
    IF n < 10 THEN <<DigitChars[n + 1]>>
    ELSE Append(str(n \div 10), DigitChars[(n % 10) + 1])

AllSpace(s, a, b) == \A x \in a..b : IsSpace(s[x])
AllDigit(s, a, b) == \A x \in a..b : IsDigit(s[x])
AllDot(s, a, b) == \A x \in a..b : IsDot(s[x])

AtDollar(s, e) == e = Len(s) \/ (e = Len(s) - 1 /\ s[Len(s)] = "\n")

WaysI(s) == {i \in 0..(Len(s) - 3) : AllSpace(s, 1, i) /\ s[i + 1] = "["}
WaysJ(s, i) == {j \in 1..(Len(s) - i - 2) : AllDigit(s, i + 2, i + 1 + j) /\ s[i + j + 2] = "]"}
WaysK(s, g) == {k \in 0..(Len(s) - g + 1) : AllSpace(s, g, g + k - 1)}
WaysE(s, g) == {e \in (g - 1)..Len(s) : AllDot(s, g, e) /\ AtDollar(s, e)}

Ways(s) ==
    UNION {UNION {UNION {{<<i, j, k, e>> : e \in WaysE(s, i + j + k + 3)}
                         : k \in WaysK(s, i + j + 3)}
                  : j \in WaysJ(s, i)}
           : i \in WaysI(s)}

Before(v, w) ==
    \E p \in 1..4 : (\A q \in 1..(p - 1) : v[q] = w[q]) /\ v[p] > w[p]

NoMatch == [matched |-> FALSE, group1 |-> << >>, group2 |-> << >>]

SPEAKER_PREFIX_RE_match(s) ==
    LET ways == Ways(s)
    IN  IF ways = {} THEN NoMatch
        ELSE LET w == CHOOSE v \in ways : \A u \in ways \ {v} : Before(v, u)
             IN  [matched |-> TRUE,
                  group1 |-> SubSeq(s, w[1] + 2, w[1] + 1 + w[2]),
                  group2 |-> SubSeq(s, w[1] + w[2] + w[3] + 3, w[4])]

RECURSIVE lstrip(_)
lstrip(s) == IF s # << >> /\ IsSpace(Head(s)) THEN lstrip(Tail(s)) ELSE s
RECURSIVE rstrip(_)
rstrip(s) ==
    IF s # << >> /\ IsSpace(s[Len(s)]) THEN rstrip(SubSeq(s, 1, Len(s) - 1)) ELSE s

\* Mutant: the text without a prefix is stripped.
parse_speaker_and_text_strip(d, raw_text) ==
    LET m == SPEAKER_PREFIX_RE_match(raw_text)
    IN  IF m.matched
        THEN [style_id |-> int(m.group1), text |-> m.group2]
        ELSE [style_id |-> d, text |-> rstrip(lstrip(raw_text))]

\* VoicevoxTTSNode.parse_speaker_and_text, with self.default_style_id = d.
parse_speaker_and_text(d, raw_text) ==
    LET m == SPEAKER_PREFIX_RE_match(raw_text)
    IN  IF m.matched
        THEN [style_id |-> int(m.group1), text |-> m.group2]
        ELSE [style_id |-> d, text |-> raw_text]

(***************************************************************************)
(* The directory tree.  Entry i of fs.entries is [parent, name, kind];     *)
(* parent 0 is engine_dir itself.  os.scandir lists a directory's entries  *)
(* in an order of the file system's own: here, the order of the indices.   *)
(***************************************************************************)
Names == {LIB_VERSIONED_FILENAME, target_dir_name, vvm_file, "README"}
Kinds == {"file", "dir"}

ValidEntry(es, e) ==
    /\ e.parent = 0 \/ es[e.parent].kind = "dir"
    /\ \A i \in DOMAIN es : ~(es[i].parent = e.parent /\ es[i].name = e.name)

RECURSIVE EntryLists(_)
EntryLists(n) ==
    IF n = 0 THEN {<< >>}
    ELSE LET shorter == EntryLists(n - 1)
         IN  shorter \cup
             {Append(es, e) :
                 es \in {t \in shorter : Len(t) = n - 1},
                 e \in [parent : 0..(n - 1), name : Names, kind : Kinds]}

Trees(n) ==
    {[root |-> "dir", entries |-> es] :
        es \in {t \in EntryLists(n) :
                  \A i \in DOMAIN t : ValidEntry(SubSeq(t, 1, i - 1), t[i])}}
    \cup {[root |-> "missing", entries |-> << >>]}

\* The trees holding some of the three assets right under engine_dir.
FlatTrees ==
    {[root |-> "dir", entries |-> es] :
        es \in {<< >>,
                <<[parent |-> 0, name |-> LIB_VERSIONED_FILENAME, kind |-> "file"]>>,
                <<[parent |-> 0, name |-> LIB_VERSIONED_FILENAME, kind |-> "file"],
                  [parent |-> 0, name |-> target_dir_name, kind |-> "dir"]>>,
                <<[parent |-> 0, name |-> LIB_VERSIONED_FILENAME, kind |-> "file"],
                  [parent |-> 0, name |-> target_dir_name, kind |-> "dir"],
                  [parent |-> 0, name |-> vvm_file, kind |-> "file"]>>}}

RECURSIVE SortedSeq(_)
SortedSeq(S) ==
    IF S = {} THEN << >>
    ELSE LET m == CHOOSE x \in S : \A y \in S : x <= y
         IN  <<m>> \o SortedSeq(S \ {m})

scandir(f, top) == {i \in DOMAIN f.entries : f.entries[i].parent = top}
dirs(f, top) == {i \in scandir(f, top) : f.entries[i].kind = "dir"}
files(f, top) == {i \in scandir(f, top) : f.entries[i].kind # "dir"}
names(f, S) == {f.entries[i].name : i \in S}

\* os.walk(engine_dir), top down: the directories in the order it yields them.
RECURSIVE walk(_, _)
walk(f, stack) ==
    IF stack = << >> THEN << >>
    ELSE <<Head(stack)>> \o walk(f, SortedSeq(dirs(f, Head(stack))) \o Tail(stack))

os_walk(f) == IF f.root = "dir" THEN walk(f, <<0>>) ELSE << >>

RECURSIVE path_of(_, _)
path_of(f, d) ==
    IF d = 0 THEN <<"engine_dir">>
    ELSE Append(path_of(f, f.entries[d].parent), f.entries[d].name)

NotFound == [found |-> FALSE, path |-> << >>]
Found(p) == [found |-> TRUE, path |-> p]

\* The loop shared by the three searches: the first root os.walk yields
\* whose list (which = "files" or "dirs") holds the target.
\* Mutant: the target is looked up among all the entries of a directory,
\* whatever their kind.
listing_any_kind(f, top, which) == scandir(f, top)
listing(f, top, which) == IF which = "dirs" THEN dirs(f, top) ELSE files(f, top)

first_root(f, target, which) ==
    LET w == os_walk(f)
        hits == {x \in 1..Len(w) : target \in names(f, listing(f, w[x], which))}
    IN  IF hits = {} THEN NotFound
        ELSE LET x == CHOOSE y \in hits : \A z \in hits : y <= z
             IN  Found(Append(path_of(f, w[x]), target))

find_onnxruntime_lib(f) == first_root(f, LIB_VERSIONED_FILENAME, "files")
\* Mutant: the path is joined from a fixed layout and never looked up.
find_openjtalk_dict_dir_joined(f) == Found(<<"engine_dir", "dict", target_dir_name>>)
find_openjtalk_dict_dir(f) == first_root(f, target_dir_name, "dirs")
find_vvm_path(f, vf) == first_root(f, vf, "files")

(***************************************************************************)
(* main() and VoicevoxTTSNode.__init__                                     *)
(***************************************************************************)
NoPaths == [onnxruntime_path |-> << >>, open_jtalk_dict_dir |-> << >>, vvm_path |-> << >>]
NoEngine == [onnx |-> FALSE, openjtalk |-> FALSE, synthesizer |-> "none"]

\* A frame of on_text_received: msg.data, the locals, the calls made to the
\* engine and to sounddevice, and the log entries written, in order.  wav
\* and data are << >> until assigned.
Frame(raw_data) ==
    [msg |-> raw_data, pc |-> "entry", style_id |-> 0, text |-> << >>,
     wav |-> << >>, data |-> << >>, samplerate |-> 0,
     tts_calls |-> << >>, play_calls |-> << >>, wait_calls |-> 0, log |-> << >>]
NoHandling == [Frame(<< >>) EXCEPT !.pc = "none"]

\* An exception raised inside the try block of __init__: control goes to
\* its except clause.
NoError == [type |-> "none", name |-> "", under |-> ""]
FileNotFoundError(target) ==
    [type |-> "FileNotFoundError", name |-> target, under |-> "engine_dir"]
EngineError == [type |-> "EngineError", name |-> "", under |-> ""]

RaiseInInit(e) ==
    /\ init_error' = e
    /\ main_pc' = "except"

\* rclpy.init, Node.__init__, the three parameters.
Start ==
    /\ main_pc = "main"
    /\ rclpy_state' = "ok"
    /\ node_state' = "alive"
    /\ default_style_id' \in 0..MaxStyle
    /\ main_pc' = "find_lib"
    /\ UNCHANGED <<fs, paths, engine, init_error, subscribed, queue, running, last>>

\* Mutant: the runtime is loaded as soon as its library is found, before
\* the two other searches.
FindLibThenLoad ==
    /\ main_pc = "find_lib"
    /\ LET r == find_onnxruntime_lib(fs)
       IN  IF r.found
           THEN /\ paths' = [paths EXCEPT !.onnxruntime_path = r.path]
                /\ engine' = [engine EXCEPT !.onnx = TRUE]
                /\ main_pc' = "find_dict"
                /\ UNCHANGED init_error
           ELSE /\ RaiseInInit(FileNotFoundError(LIB_VERSIONED_FILENAME))
                /\ UNCHANGED <<paths, engine>>
    /\ UNCHANGED <<fs, rclpy_state, node_state, default_style_id, subscribed,
                   queue, running, last>>

FindLib ==
    /\ main_pc = "find_lib"
    /\ LET r == find_onnxruntime_lib(fs)
       IN  IF r.found
           THEN /\ paths' = [paths EXCEPT !.onnxruntime_path = r.path]
                /\ main_pc' = "find_dict"
                /\ UNCHANGED init_error
           ELSE /\ RaiseInInit(FileNotFoundError(LIB_VERSIONED_FILENAME))
                /\ UNCHANGED paths
    /\ UNCHANGED <<fs, rclpy_state, node_state, default_style_id, engine, subscribed,
                   queue, running, last>>

FindDict ==
    /\ main_pc = "find_dict"
    /\ LET r == find_openjtalk_dict_dir(fs)
       IN  IF r.found
           THEN /\ paths' = [paths EXCEPT !.open_jtalk_dict_dir = r.path]
                /\ main_pc' = "find_vvm"
                /\ UNCHANGED init_error
           ELSE /\ RaiseInInit(FileNotFoundError(target_dir_name))
                /\ UNCHANGED paths
    /\ UNCHANGED <<fs, rclpy_state, node_state, default_style_id, engine, subscribed,
                   queue, running, last>>

FindVvm ==
    /\ main_pc = "find_vvm"
    /\ LET r == find_vvm_path(fs, vvm_file)
       IN  IF r.found
           THEN /\ paths' = [paths EXCEPT !.vvm_path = r.path]
                /\ main_pc' = "load_onnx"
                /\ UNCHANGED init_error
           ELSE /\ RaiseInInit(FileNotFoundError(vvm_file))
                /\ UNCHANGED paths
    /\ UNCHANGED <<fs, rclpy_state, node_state, default_style_id, engine, subscribed,
                   queue, running, last>>

\* Onnxruntime.load_once(filename=onnxruntime_path): the library decides.
LoadOnnx ==
    /\ main_pc = "load_onnx"
    /\ \/ /\ engine' = [engine EXCEPT !.onnx = TRUE]
          /\ main_pc' = "open_jtalk"
          /\ UNCHANGED init_error
       \/ /\ RaiseInInit(EngineError)
          /\ UNCHANGED engine
    /\ UNCHANGED <<fs, rclpy_state, node_state, default_style_id, paths, subscribed,
                   queue, running, last>>

\* OpenJtalk(open_jtalk_dict_dir)
NewOpenJtalk ==
    /\ main_pc = "open_jtalk"
    /\ \/ /\ engine' = [engine EXCEPT !.openjtalk = TRUE]
          /\ main_pc' = "synthesizer"
          /\ UNCHANGED init_error
       \/ /\ RaiseInInit(EngineError)
          /\ UNCHANGED engine
    /\ UNCHANGED <<fs, rclpy_state, node_state, default_style_id, paths, subscribed,
                   queue, running, last>>

\* self.synthesizer = Synthesizer(onnx, openjtalk)
NewSynthesizer ==
    /\ main_pc = "synthesizer"
    /\ \/ /\ engine' = [engine EXCEPT !.synthesizer = "constructed"]
          /\ main_pc' = "load_model"
          /\ UNCHANGED init_error
       \/ /\ RaiseInInit(EngineError)
          /\ UNCHANGED engine
    /\ UNCHANGED <<fs, rclpy_state, node_state, default_style_id, paths, subscribed,
                   queue, running, last>>

\* with VoiceModelFile.open(vvm_path) as model: load_voice_model(model)
LoadVoiceModel ==
    /\ main_pc = "load_model"
    /\ \/ /\ engine' = [engine EXCEPT !.synthesizer = "loaded"]
          /\ main_pc' = "subscribe"
          /\ UNCHANGED init_error
       \/ /\ RaiseInInit(EngineError)
          /\ UNCHANGED engine
    /\ UNCHANGED <<fs, rclpy_state, node_state, default_style_id, paths, subscribed,
                   queue, running, last>>

\* Mutant: the except clause logs and does not raise.
InitExceptSwallow ==
    /\ main_pc = "except"
    /\ main_pc' = "subscribe"
    /\ UNCHANGED <<fs, rclpy_state, node_state, default_style_id, paths, engine,
                   init_error, subscribed, queue, running, last>>

\* except Exception: log, raise.  main() calls the constructor outside its
\* try block, so the exception leaves main() and ends the process.
InitExcept ==
    /\ main_pc = "except"
    /\ main_pc' = "crashed"
    /\ UNCHANGED <<fs, rclpy_state, node_state, default_style_id, paths, engine,
                   init_error, subscribed, queue, running, last>>

\* create_subscription; the constructor returns and main() calls rclpy.spin.
Subscribe ==
    /\ main_pc = "subscribe"
    /\ subscribed' = TRUE
    /\ main_pc' = "spin"
    /\ UNCHANGED <<fs, rclpy_state, node_state, default_style_id, paths, engine,
                   init_error, queue, running, last>>

Startup ==
    \/ Start
    \/ FindLib
    \/ FindDict
    \/ FindVvm
    \/ LoadOnnx
    \/ NewOpenJtalk
    \/ NewSynthesizer
    \/ LoadVoiceModel
    \/ InitExcept
    \/ Subscribe

(***************************************************************************)
(* The tts_text subscription and on_text_received                          *)
(***************************************************************************)
\* Sampling rates the engine may encode into the WAV it returns.
EngineRates == {24000, 48000}

\* The payloads published while the whole program runs.
Utterances ==
    {<< >>,
     <<" ">>,
     <<"a">>,
     <<"[", "2", "]">>,
     <<"[", "2", "]", " ", "a">>}

\* A publisher sends raw_data on tts_text: the subscription keeps the last
\* QueueDepth payloads not yet taken.
Publish(raw_data) ==
    /\ subscribed
    /\ main_pc = "spin"
    /\ Len(queue) < MaxQueue
    /\ queue' = IF Len(queue) < QueueDepth
                THEN Append(queue, raw_data)
                ELSE Append(Tail(queue), raw_data)
    /\ UNCHANGED <<fs, main_pc, rclpy_state, node_state, default_style_id, paths,
                   engine, init_error, subscribed, running, last>>

\* Mutant: callbacks are dispatched while another is being executed.
executor_reentrant == TRUE

\* rclpy.spin(node) runs the node on the single-threaded executor: it takes
\* the next payload only when no callback is being executed.
executor_ready == running = {}

\* if not msg.data
not_data(raw_data) == raw_data = << >>
\* Mutant: only a missing text is skipped.
not_text_is_none(text) == FALSE
\* if not text
not_text(text) == text = << >>

\* Mutant: the decoded text is not tested before the synthesis.
handler_entry_unchecked(raw_data) ==
    LET h == Frame(raw_data)
        p == parse_speaker_and_text(default_style_id, raw_data)
        parsed == [h EXCEPT !.style_id = p.style_id, !.text = p.text]
    IN  IF not_data(raw_data)
        THEN [h EXCEPT !.pc = "returned_empty_data"]
        ELSE [parsed EXCEPT !.pc = "tts", !.log = <<"info">>]

\* on_text_received from its entry to the try statement.
handler_entry(raw_data) ==
    LET h == Frame(raw_data)
        p == parse_speaker_and_text(default_style_id, raw_data)
        parsed == [h EXCEPT !.style_id = p.style_id, !.text = p.text]
    IN  IF not_data(raw_data)
        THEN [h EXCEPT !.pc = "returned_empty_data"]
        ELSE IF not_text(p.text)
        THEN [parsed EXCEPT !.pc = "returned_empty_text", !.log = <<"warn">>]
        ELSE [parsed EXCEPT !.pc = "tts", !.log = <<"info">>]

Returned(h) == h.pc \in {"returned_empty_data", "returned_empty_text", "returned"}

\* The frame h is replaced by g; a frame that has returned leaves running.
Continue(h, g) ==
    IF Returned(g)
    THEN /\ running' = running \ {h}
         /\ last' = g
    ELSE /\ running' = (running \ {h}) \cup {g}
         /\ UNCHANGED last

\* Mutant: the style decoded from a message becomes the default style.
TakeSticky ==
    /\ main_pc = "spin"
    /\ queue # << >>
    /\ executor_ready
    /\ queue' = Tail(queue)
    /\ LET g == handler_entry(Head(queue))
       IN  /\ default_style_id' = IF g.pc = "returned_empty_data"
                                  THEN default_style_id ELSE g.style_id
           /\ IF Returned(g)
              THEN /\ last' = g
                   /\ UNCHANGED running
              ELSE /\ running' = running \cup {g}
                   /\ UNCHANGED last
    /\ UNCHANGED <<fs, main_pc, rclpy_state, node_state, paths,
                   engine, init_error, subscribed>>

\* The executor takes the oldest payload and calls on_text_received.
Take ==
    /\ main_pc = "spin"
    /\ queue # << >>
    /\ executor_ready
    /\ queue' = Tail(queue)
    /\ LET g == handler_entry(Head(queue))
       IN  IF Returned(g)
           THEN /\ last' = g
                /\ UNCHANGED running
           ELSE /\ running' = running \cup {g}
                /\ UNCHANGED last
    /\ UNCHANGED <<fs, main_pc, rclpy_state, node_state, default_style_id, paths,
                   engine, init_error, subscribed>>

\* Mutant: the error is logged and raised again, out of the callback.
handler_except_reraise(h) == [h EXCEPT !.pc = "raised", !.log = Append(h.log, "error")]

\* except Exception as e: log the error; the handler returns.
handler_except(h) == [h EXCEPT !.pc = "returned", !.log = Append(h.log, "error")]

\* wav_bytes = self.synthesizer.tts(text, style_id): the engine returns the
\* audio of this text in this style, or raises.
tts_returns(h, rate) ==
    [h EXCEPT !.tts_calls = Append(h.tts_calls, [text |-> h.text, style_id |-> h.style_id]),
              !.wav = <<[text |-> h.text, style_id |-> h.style_id, rate |-> rate]>>,
              !.pc = "read"]
\* Mutant: only the synthesis is guarded, and the playback follows anyway.
tts_raises_plays(h) ==
    [h EXCEPT !.tts_calls = Append(h.tts_calls, [text |-> h.text, style_id |-> h.style_id]),
              !.log = Append(h.log, "error"),
              !.pc = "play"]
\* Mutant: a synthesis call that raised is made once more.
tts_raises_retry(h) ==
    IF h.tts_calls = << >>
    THEN [h EXCEPT !.tts_calls = Append(h.tts_calls, [text |-> h.text, style_id |-> h.style_id])]
    ELSE handler_except([h EXCEPT !.tts_calls =
                            Append(h.tts_calls, [text |-> h.text, style_id |-> h.style_id])])
tts_raises(h) ==
    handler_except([h EXCEPT !.tts_calls =
                        Append(h.tts_calls, [text |-> h.text, style_id |-> h.style_id])])

Tts(h) ==
    /\ h.pc = "tts"
    /\ main_pc = "spin"
    /\ \/ \E rate \in EngineRates : Continue(h, tts_returns(h, rate))
       \/ Continue(h, tts_raises(h))
    /\ UNCHANGED <<fs, main_pc, rclpy_state, node_state, default_style_id, paths,
                   engine, init_error, subscribed, queue>>

\* data, samplerate = sf.read(io.BytesIO(wav_bytes), dtype="int16");
\* data = np.asarray(data)
sf_read_returns(h) ==
    [h EXCEPT !.data = <<[pcm_of |-> h.wav[1], dtype |-> "int16"]>>,
              !.samplerate = h.wav[1].rate,
              !.pc = "play"]

SfRead(h) ==
    /\ h.pc = "read"
    /\ main_pc = "spin"
    /\ \/ Continue(h, sf_read_returns(h))
       \/ Continue(h, handler_except(h))
    /\ UNCHANGED <<fs, main_pc, rclpy_state, node_state, default_style_id, paths,
                   engine, init_error, subscribed, queue>>

\* sd.play(data, samplerate)
sd_play_called(h) ==
    [h EXCEPT !.play_calls =
                 Append(h.play_calls, [data |-> h.data, samplerate |-> h.samplerate])]

\* Mutant: sd.play is called outside the try statement, so its exception
\* leaves the callback.
SdPlayUnguarded(h) ==
    /\ h.pc = "play"
    /\ main_pc = "spin"
    /\ \/ Continue(h, [sd_play_called(h) EXCEPT !.pc = "wait"])
       \/ Continue(h, [sd_play_called(h) EXCEPT !.pc = "raised"])
    /\ UNCHANGED <<fs, main_pc, rclpy_state, node_state, default_style_id, paths,
                   engine, init_error, subscribed, queue>>

SdPlay(h) ==
    /\ h.pc = "play"
    /\ main_pc = "spin"
    /\ \/ Continue(h, [sd_play_called(h) EXCEPT !.pc = "wait"])
       \/ Continue(h, handler_except(sd_play_called(h)))
    /\ UNCHANGED <<fs, main_pc, rclpy_state, node_state, default_style_id, paths,
                   engine, init_error, subscribed, queue>>

\* sd.wait(): blocks until the playback has finished.
SdWait(h) ==
    /\ h.pc = "wait"
    /\ main_pc = "spin"
    /\ \/ Continue(h, [h EXCEPT !.wait_calls = h.wait_calls + 1, !.pc = "returned"])
       \/ Continue(h, handler_except([h EXCEPT !.wait_calls = h.wait_calls + 1]))
    /\ UNCHANGED <<fs, main_pc, rclpy_state, node_state, default_style_id, paths,
                   engine, init_error, subscribed, queue>>

Handle ==
    \/ Take
    \/ \E h \in running : Tts(h)
    \/ \E h \in running : SfRead(h)
    \/ \E h \in running : SdPlay(h)
    \/ \E h \in running : SdWait(h)

(***************************************************************************)
(* The end of main()                                                       *)
(***************************************************************************)
\* Mutant: main() has no finally clause: an interrupted spin ends the process.
InterruptNoFinally ==
    /\ main_pc = "spin"
    /\ main_pc' = "exited"
    /\ running' = {}
    /\ last' = IF running = {} THEN last
               ELSE [(CHOOSE h \in running : TRUE) EXCEPT !.pc = "abandoned"]
    /\ UNCHANGED <<fs, rclpy_state, node_state, default_style_id, paths, engine,
                   init_error, subscribed, queue>>

\* rclpy.spin is interrupted (KeyboardInterrupt, external shutdown): a
\* callback being executed is abandoned and control goes to finally.
Interrupt ==
    /\ main_pc = "spin"
    /\ main_pc' = "finally"
    /\ running' = {}
    /\ last' = IF running = {} THEN last
               ELSE [(CHOOSE h \in running : TRUE) EXCEPT !.pc = "abandoned"]
    /\ UNCHANGED <<fs, rclpy_state, node_state, default_style_id, paths, engine,
                   init_error, subscribed, queue>>

\* node.destroy_node()
DestroyNode ==
    /\ main_pc = "finally"
    /\ node_state' = "destroyed"
    /\ subscribed' = FALSE
    /\ queue' = << >>
    /\ main_pc' = "shutdown"
    /\ UNCHANGED <<fs, rclpy_state, default_style_id, paths, engine, init_error,
                   running, last>>

\* rclpy.shutdown(); main() returns.
RclpyShutdown ==
    /\ main_pc = "shutdown"
    /\ rclpy_state' = "shutdown"
    /\ main_pc' = "exited"
    /\ UNCHANGED <<fs, node_state, default_style_id, paths, engine, init_error,
                   subscribed, queue, running, last>>

Shutdown ==
    \/ Interrupt
    \/ DestroyNode
    \/ RclpyShutdown

(***************************************************************************)
(* Specifications                                                          *)
(***************************************************************************)
InitProcess ==
    /\ main_pc = "main"
    /\ rclpy_state = "uninit"
    /\ node_state = "none"
    /\ default_style_id = -1
    /\ paths = NoPaths
    /\ engine = NoEngine
    /\ init_error = NoError
    /\ subscribed = FALSE
    /\ queue = << >>
    /\ running = {}
    /\ last = NoHandling

\* The whole program, over the flat trees and the sample utterances.
Init ==
    /\ fs \in FlatTrees
    /\ InitProcess

Next ==
    \/ Startup
    \/ \E raw_data \in Utterances : Publish(raw_data)
    \/ Handle
    \/ Shutdown

Spec == Init /\ [][Next]_vars

\* The start-up over every tree of up to MaxEntries entries.
InitAssets ==
    /\ fs \in Trees(MaxEntries)
    /\ InitProcess

SpecAssets == InitAssets /\ [][Startup]_vars

\* The handler over every payload: the node has started on the complete
\* flat tree, is spinning, and one payload waits in the subscription.
Selector(n) == <<"[">> \o str(n) \o <<"]">>
SelectorIds == {0, 2}
\* Payloads with two bracket tokens, and with a token after one character.
TokenPayloads ==
    {Selector(n) \o sep \o Selector(m) \o t :
        n \in SelectorIds, m \in SelectorIds, sep \in {<< >>, <<" ">>}, t \in Strings(MaxTail)}
    \cup {<<c>> \o Selector(n) \o t : c \in Chars, n \in SelectorIds, t \in Strings(1)}
Payloads ==
    Strings(MaxLen)
    \cup {Selector(n) \o <<" ">> \o t : n \in SelectorIds, t \in Strings(MaxText)}
    \cup TokenPayloads

CompleteTree ==
    [root |-> "dir",
     entries |-> <<[parent |-> 0, name |-> LIB_VERSIONED_FILENAME, kind |-> "file"],
                   [parent |-> 0, name |-> target_dir_name, kind |-> "dir"],
                   [parent |-> 0, name |-> vvm_file, kind |-> "file"]>>]

Spinning ==
    /\ main_pc = "spin"
    /\ rclpy_state = "ok"
    /\ node_state = "alive"
    /\ paths = [onnxruntime_path |-> <<"engine_dir", LIB_VERSIONED_FILENAME>>,
                open_jtalk_dict_dir |-> <<"engine_dir", target_dir_name>>,
                vvm_path |-> <<"engine_dir", vvm_file>>]
    /\ engine = [onnx |-> TRUE, openjtalk |-> TRUE, synthesizer |-> "loaded"]
    /\ init_error = NoError
    /\ subscribed = TRUE
    /\ running = {}
    /\ last = NoHandling

InitDecode ==
    /\ fs = CompleteTree
    /\ default_style_id \in 0..MaxStyle
    /\ Spinning
    /\ queue \in {<<raw_data>> : raw_data \in Payloads}

SpecDecode == InitDecode /\ [][Handle]_vars

(***************************************************************************)
(* Properties                                                              *)
(***************************************************************************)
\* Every frame the handler has made: those being executed and the one that
\* returned last.
Frames == running \cup ({last} \ {NoHandling})

Ready ==
    /\ main_pc = "spin"
    /\ node_state = "alive"
    /\ subscribed
    /\ engine.synthesizer = "loaded"

\* The synthesis call of h was made and raised.
SynthesisFailed(h) == h.tts_calls # << >> /\ h.wav = << >>

\* raw has a leading bracket token: whitespace, "[", digits, "]".
LeadingToken(raw) ==
    \E i \in 0..Len(raw), j \in 1..Len(raw) :
        /\ i + j + 2 <= Len(raw)
        /\ \A x \in 1..i : raw[x] \in Whitespace
        /\ raw[i + 1] = "["
        /\ \A x \in (i + 2)..(i + 1 + j) : raw[x] \in Digit
        /\ raw[i + j + 2] = "]"

Blank(raw) == \A x \in 1..Len(raw) : raw[x] \in Whitespace

\* raw is whitespace, "[n]" for a number n written in decimal, whitespace.
SelectorOnly(raw) ==
    \E i \in 0..Len(raw), j \in 1..Len(raw) :
        /\ i + j + 2 <= Len(raw)
        /\ Blank(SubSeq(raw, 1, i))
        /\ \A x \in (i + 2)..(i + 1 + j) : raw[x] \in Digit
        /\ SubSeq(raw, i + 1, i + j + 2) = Selector(int(SubSeq(raw, i + 2, i + j + 1)))
        /\ Blank(SubSeq(raw, i + j + 3, Len(raw)))

\* A step in which the executor takes the oldest payload.
TakeStep ==
    /\ main_pc = "spin"
    /\ main_pc' = "spin"
    /\ queue # << >>
    /\ queue' = Tail(queue)

\* Parts of C1.  When the synthesis call of a message fails, the handler returns: no
\* frame stays behind it, the failed handling is the last one returned, and
\* the node still spins with its subscription, its engine, its default style
\* and the waiting payloads untouched; the payload taken next is handled as
\* handler_entry alone says, i.e. as if the failed message had never come.
C1_FailedFrameReturned ==
    /\ \A h \in running : ~SynthesisFailed(h) /\ h.pc # "raised"
    /\ (SynthesisFailed(last) /\ main_pc = "spin") => Ready /\ last.pc = "returned"
    /\ (SynthesisFailed(last) /\ main_pc = "spin" /\ running = {} /\ queue # << >>)
          => ENABLED Take
C1_FailureStep ==
    \A h \in running :
        (h.pc = "tts" /\ running' = running \ {h} /\ main_pc' = "spin")
            => /\ last'.msg = h.msg
               /\ SynthesisFailed(last')
               /\ last'.pc = "returned"
               /\ last'.play_calls = << >>
               /\ running' = {}
               /\ Ready'
               /\ UNCHANGED <<default_style_id, engine, paths, subscribed, queue,
                              node_state, rclpy_state>>
C1_NextAfterFailure ==
    (SynthesisFailed(last) /\ TakeStep)
        => LET g == handler_entry(Head(queue))
           IN  IF Returned(g) THEN last' = g /\ running' = running
               ELSE g.pc = "tts" /\ running' = {g} /\ last' = last
\* C1: failure isolation: in every state C1_FailedFrameReturned holds, and
\* every step keeps C1_FailureStep and C1_NextAfterFailure.
C1_FailureIsolation ==
    /\ []C1_FailedFrameReturned
    /\ [][C1_FailureStep /\ C1_NextAfterFailure]_vars
\* C1 witness: after a message whose synthesis failed, the next message is
\* being played.
C1_Witness ==
    /\ SynthesisFailed(last)
    /\ \E h \in running : h.pc = "wait" /\ h.play_calls # << >>

\* C2: a payload that is empty or only whitespace is discarded with no
\* synthesis call and no playback call.
C2_BlankDiscarded ==
    \A h \in Frames :
        Blank(h.msg) => h.tts_calls = << >> /\ h.play_calls = << >> /\ h \notin running

\* C3: "[n] " + t with t non-empty decodes to (n, t).
C3_PrefixDecode ==
    \A h \in Frames : \A n \in SelectorIds :
        LET prefix == Selector(n) \o <<" ">>
        IN  (Len(h.msg) > Len(prefix) /\ SubSeq(h.msg, 1, Len(prefix)) = prefix)
                => /\ h.style_id = n
                   /\ h.text = SubSeq(h.msg, Len(prefix) + 1, Len(h.msg))

\* C4: a non-empty payload with no leading bracket token decodes to the
\* default style and the payload itself, nothing stripped.
C4_DefaultDecode ==
    \A h \in Frames :
        (h.pc # "returned_empty_data" /\ ~LeadingToken(h.msg))
            => h.style_id = default_style_id /\ h.text = h.msg
\* C4 witness: a payload with whitespace at both ends is being synthesized
\* with the default style, here a default other than 0.
C4_Witness ==
    \E h \in running :
        /\ ~LeadingToken(h.msg)
        /\ Len(h.msg) >= 3
        /\ h.msg[1] = " "
        /\ h.msg[Len(h.msg)] = "\n"
        /\ h.pc = "tts"
        /\ h.text = h.msg
        /\ h.style_id = 1

\* C5: a payload of only whitespace, "[n]" and whitespace decodes to the
\* empty text; the handler returns with no synthesis and no playback call,
\* and the node goes on spinning.
C5_SelectorOnlyDiscarded ==
    /\ \A h \in running : ~SelectorOnly(h.msg)
    /\ SelectorOnly(last.msg)
          => /\ last.pc = "returned_empty_text"
             /\ last.text = << >>
             /\ last.tts_calls = << >>
             /\ last.play_calls = << >>
             /\ Ready
\* C5 witness: the payload " [2]" has been discarded.
C5_Witness ==
    /\ SelectorOnly(last.msg)
    /\ Len(last.msg) = 4
    /\ last.msg[1] = " "
    /\ last.style_id = 2
    /\ last.pc = "returned_empty_text"
    /\ running = {}

\* C6: sd.play and sd.wait are called for a message only after its own
\* synthesis call returned and its audio was decoded; a message whose
\* synthesis raised has no playback call.
C6_PlayOnlyAfterSynthesis ==
    \A h \in Frames :
        /\ (h.play_calls # << >> \/ h.wait_calls > 0 \/ h.pc \in {"play", "wait"})
              => /\ h.wav # << >>
                 /\ h.data # << >>
                 /\ h.wav[1].text = h.text
        /\ SynthesisFailed(h) => h.play_calls = << >> /\ h.wait_calls = 0
\* C6 witness: a handling whose synthesis raised has returned without
\* playback, and the earlier payloads are gone from the queue.
C6_Witness ==
    /\ SynthesisFailed(last)
    /\ last.pc = "returned"
    /\ last.play_calls = << >>
    /\ last.log = <<"info", "error">>
    /\ running = {}
    /\ queue = << >>

\* Every step of the start-up has succeeded.
StartupComplete ==
    /\ find_onnxruntime_lib(fs).found
    /\ find_openjtalk_dict_dir(fs).found
    /\ find_vvm_path(fs, vvm_file).found
    /\ paths.onnxruntime_path # << >>
    /\ paths.open_jtalk_dict_dir # << >>
    /\ paths.vvm_path # << >>
    /\ engine = [onnx |-> TRUE, openjtalk |-> TRUE, synthesizer |-> "loaded"]
    /\ init_error = NoError

\* C7: a failed start-up step is re-raised out of the constructor: the
\* subscription is never created, no payload is ever queued or handled and
\* the process ends; the subscription exists, and a payload is handled,
\* only when every start-up step has succeeded.
C7_StartupAllOrNothing ==
    /\ init_error # NoError
          => /\ main_pc \in {"except", "crashed"}
             /\ ~subscribed
             /\ queue = << >>
             /\ running = {}
             /\ last = NoHandling
    /\ main_pc = "crashed" => init_error # NoError /\ ~ENABLED Next
    /\ (subscribed \/ queue # << >> \/ running # {} \/ last # NoHandling
            \/ main_pc \in {"subscribe", "spin"})
          => StartupComplete
\* C7 witness: the process has ended on an engine error, after the runtime
\* was loaded.
C7_Witness ==
    /\ main_pc = "crashed"
    /\ init_error = EngineError
    /\ engine.onnx
    /\ ~subscribed

\* Parts of C8: at most one frame is being executed, and a payload is taken
\* only when none is.
C8_NoOverlap == Cardinality(running) <= 1
C8_HandledInTurn == TakeStep => running = {} /\ Cardinality(running') <= 1
\* C8: at most one call of on_text_received is in progress, so no two
\* synthesis calls, no two playbacks and no synthesis and playback of
\* different messages overlap; a payload that arrives meanwhile waits until
\* the handling in progress has returned.
C8_OneAtATime == []C8_NoOverlap /\ [][C8_HandledInTurn]_vars
\* C8 witness: a playback is in progress while two payloads wait.
C8_Witness ==
    /\ \E h \in running : h.pc = "wait"
    /\ Len(queue) = 2

\* The number of the leading bracket token of raw.
LeadingNumber(raw) ==
    LET i == CHOOSE x \in 0..Len(raw) : Blank(SubSeq(raw, 1, x)) /\ raw[x + 1] = "["
        j == CHOOSE y \in 1..Len(raw) :
                /\ raw[i + y + 2] = "]"
                /\ \A x \in (i + 2)..(i + 1 + y) : raw[x] \in Digit
    IN  int(SubSeq(raw, i + 2, i + j + 1))

\* C9: the synthesis call gets the text and style decoded from the message,
\* the style being the prefix number when the message has a leading "[n]"
\* and the default style otherwise; playback gets the samples and the
\* sampling rate decoded from the bytes that call returned.
C9_StyleRouting ==
    \A h \in Frames :
        /\ h.tts_calls # << >>
              => /\ h.tts_calls = <<[text |-> h.text, style_id |-> h.style_id]>>
                 /\ h.style_id = IF LeadingToken(h.msg) THEN LeadingNumber(h.msg)
                                 ELSE default_style_id
        /\ h.play_calls # << >>
              => /\ Len(h.play_calls) = 1
                 /\ h.play_calls[1].data = <<[pcm_of |-> h.wav[1], dtype |-> "int16"]>>
                 /\ h.play_calls[1].samplerate = h.wav[1].rate
                 /\ h.wav[1].text = h.tts_calls[1].text
                 /\ h.wav[1].style_id = h.tts_calls[1].style_id

NoEntryNamed(f, name) == \A i \in DOMAIN f.entries : f.entries[i].name # name

\* C10: on a tree with no entry of the target's name, each of the three
\* searches finds nothing, and the start-up step that runs it raises
\* FileNotFoundError naming the target and engine_dir, leaving no path.
C10_AssetNotFound ==
    /\ NoEntryNamed(fs, LIB_VERSIONED_FILENAME)
          => /\ find_onnxruntime_lib(fs) = NotFound
             /\ main_pc \notin {"main", "find_lib"}
                   => /\ init_error = FileNotFoundError(LIB_VERSIONED_FILENAME)
                      /\ paths = NoPaths
    /\ NoEntryNamed(fs, target_dir_name)
          => /\ find_openjtalk_dict_dir(fs) = NotFound
             /\ (paths.onnxruntime_path # << >> /\ main_pc # "find_dict")
                   => /\ init_error = FileNotFoundError(target_dir_name)
                      /\ paths.open_jtalk_dict_dir = << >>
                      /\ paths.vvm_path = << >>
    /\ NoEntryNamed(fs, vvm_file)
          => /\ find_vvm_path(fs, vvm_file) = NotFound
             /\ (paths.open_jtalk_dict_dir # << >> /\ main_pc # "find_vvm")
                   => /\ init_error = FileNotFoundError(vvm_file)
                      /\ paths.vvm_path = << >>
\* C10 witness: the search for the voice model has failed on a tree that
\* holds the two other assets below the top directory, and the process has
\* ended.
C10_Witness ==
    /\ NoEntryNamed(fs, vvm_file)
    /\ Len(paths.onnxruntime_path) > 2
    /\ paths.open_jtalk_dict_dir # << >>
    /\ init_error = FileNotFoundError(vvm_file)
    /\ main_pc = "crashed"

\* The except clause of the handler has run for h.
Failed(h) == \E x \in DOMAIN h.log : h.log[x] = "error"

\* The statement of the try block that raised for h.
FailedAt(h) ==
    IF h.wav = << >> THEN "tts"
    ELSE IF h.data = << >> THEN "read"
    ELSE IF h.wait_calls = 0 THEN "play"
    ELSE "wait"

\* Parts of C11.  No frame is left behind by an exception, and a handling
\* that failed has returned with the error logged once, the node still
\* spinning on its subscription and engine with no callback in progress.
C11_ErrorsCaught ==
    /\ \A h \in running : ~Failed(h) /\ h.pc \in {"tts", "read", "play", "wait"}
    /\ Failed(last)
          => /\ last.pc = "returned"
             /\ last.log = <<"info", "error">>
             /\ main_pc = "spin"
             /\ Ready
             /\ executor_ready
             /\ rclpy_state = "ok"
\* A step of the try block either goes on to the next statement or ends the
\* call with the frame returned; the node is not touched.
C11_TryStep ==
    \A h \in running :
        h \notin running'
            => /\ main_pc' = "spin"
               /\ UNCHANGED <<node_state, rclpy_state, subscribed, engine, default_style_id>>
               /\ \/ \E g \in running' : g.msg = h.msg /\ ~Failed(g) /\ running' = {g}
                  \/ running' = {} /\ last'.msg = h.msg /\ last'.pc = "returned"
\* C11: for every payload, a failure of the synthesis, of the decoding of
\* the audio or of the playback is caught inside on_text_received: the call
\* returns, the process goes on spinning and the node is ready for the next
\* message.
C11_ErrorsNeverEscape == []C11_ErrorsCaught /\ [][C11_TryStep]_vars
\* C11 witness: sd.wait has raised after the playback was started, and the
\* handler has returned.
C11_Witness ==
    /\ Failed(last)
    /\ FailedAt(last) = "wait"
    /\ last.play_calls # << >>
    /\ last.pc = "returned"
    /\ Ready

AllPathsResolved ==
    /\ paths.onnxruntime_path # << >>
    /\ paths.open_jtalk_dict_dir # << >>
    /\ paths.vvm_path # << >>

\* Parts of C12.  While a search is still to run or has failed, nothing of
\* the engine exists; whatever of the engine exists was built after the
\* three searches had succeeded.
C12_NoEngineBeforePaths ==
    /\ main_pc \in {"main", "find_lib", "find_dict", "find_vvm"} => engine = NoEngine
    /\ init_error.type = "FileNotFoundError"
          => /\ engine = NoEngine
             /\ ~AllPathsResolved
             /\ main_pc \in {"except", "crashed"}
    /\ engine # NoEngine
          => /\ AllPathsResolved
             /\ find_onnxruntime_lib(fs).found
             /\ find_openjtalk_dict_dir(fs).found
             /\ find_vvm_path(fs, vvm_file).found
    /\ ~(find_onnxruntime_lib(fs).found /\ find_openjtalk_dict_dir(fs).found
            /\ find_vvm_path(fs, vvm_file).found)
          => engine = NoEngine
\* A step changes the engine only when the three paths are already there.
C12_EngineStep == engine' # engine => AllPathsResolved /\ paths' = paths
\* C12: the start-up resolves the runtime library, the dictionary directory
\* and the voice model file before it constructs anything of the engine; if
\* one of the three searches fails, the runtime is not loaded, the dictionary
\* is not opened and no synthesizer is created.
C12_FailFast == []C12_NoEngineBeforePaths /\ [][C12_EngineStep]_vars
\* C12 witness: the search for the dictionary has failed after the library
\* was found, and the process has ended with no engine.
C12_Witness ==
    /\ init_error = FileNotFoundError(target_dir_name)
    /\ paths.onnxruntime_path # << >>
    /\ engine = NoEngine
    /\ main_pc = "crashed"

\* The position of a frame in on_text_received, in program order.
Rank(pc) ==
    CASE pc = "entry" -> 0
      [] pc = "tts" -> 1
      [] pc = "read" -> 2
      [] pc = "play" -> 3
      [] pc = "wait" -> 4
      [] OTHER -> 5

\* Parts of C13.  A handling has called tts, sd.play and sd.wait at most
\* once each; a handler step moves its frame forward only and puts nothing
\* into the subscription.
C13_AtMostOnce ==
    \A h \in Frames :
        /\ Len(h.tts_calls) <= 1
        /\ Len(h.play_calls) <= 1
        /\ h.wait_calls <= 1
        /\ Failed(h) => h.pc = "returned" /\ h \notin running
C13_NoRequeue ==
    \A h \in running :
        (h \notin running' /\ main_pc' = "spin")
            => /\ queue' = queue
               /\ \A g \in running' : g.msg = h.msg /\ Rank(g.pc) > Rank(h.pc)
C13_TakeOnce ==
    TakeStep => \A g \in running' : g.msg = Head(queue) /\ g.tts_calls = << >>
\* C13: for each delivery of a message the handler calls the synthesis at
\* most once and the playback at most once, whatever either call does; a
\* message that failed is dropped, never handled again.
C13_NoRetry == []C13_AtMostOnce /\ [][C13_NoRequeue /\ C13_TakeOnce]_vars
\* C13 witness: sd.play has raised, the handler has returned after its one
\* synthesis call and its one playback call, and nothing waits to be handled.
C13_Witness ==
    /\ Failed(last)
    /\ FailedAt(last) = "play"
    /\ Len(last.tts_calls) = 1
    /\ Len(last.play_calls) = 1
    /\ running = {}
    /\ queue = << >>
    /\ main_pc = "spin"

\* The entries of f with this name that are directories (which = "dirs") or
\* are not (which = "files").
EntriesNamed(f, name, which) ==
    {i \in DOMAIN f.entries :
        /\ f.entries[i].name = name
        /\ (f.entries[i].kind = "dir") <=> (which = "dirs")}

\* r is what a search for name among which should return on f: a path when
\* an entry of this name and kind exists at any depth, and then the path of
\* such an entry, from engine_dir down to the name.
GoodAnswer(f, name, which, r) ==
    /\ r.found <=> EntriesNamed(f, name, which) # {}
    /\ r.found
          => /\ Len(r.path) >= 2
             /\ r.path[1] = "engine_dir"
             /\ r.path[Len(r.path)] = name
             /\ \E i \in EntriesNamed(f, name, which) : path_of(f, i) = r.path
    /\ ~r.found => r = NotFound

\* C14: over any tree, a search for a file finds one whenever a file of the
\* target name exists at any depth, and a search for a directory finds one
\* whenever a directory of that name exists at any depth; the path returned
\* lies under engine_dir, ends in the target name and names an entry of the
\* kind asked for.  The paths the start-up keeps are the ones returned.
C14_SearchCompleteKindCorrect ==
    /\ GoodAnswer(fs, LIB_VERSIONED_FILENAME, "files", find_onnxruntime_lib(fs))
    /\ GoodAnswer(fs, target_dir_name, "dirs", find_openjtalk_dict_dir(fs))
    /\ GoodAnswer(fs, vvm_file, "files", find_vvm_path(fs, vvm_file))
    /\ paths.onnxruntime_path # << >>
          => paths.onnxruntime_path = find_onnxruntime_lib(fs).path
    /\ paths.open_jtalk_dict_dir # << >>
          => paths.open_jtalk_dict_dir = find_openjtalk_dict_dir(fs).path
    /\ paths.vvm_path # << >>
          => paths.vvm_path = find_vvm_path(fs, vvm_file).path
    /\ main_pc \in {"find_dict", "find_vvm", "load_onnx"} => paths.onnxruntime_path # << >>
\* C14 witness: engine_dir holds a directory with the name of the runtime
\* library, the library file lies deeper, and the start-up has kept the
\* path of the file.
C14_Witness ==
    /\ \E i \in DOMAIN fs.entries :
           /\ fs.entries[i].parent = 0
           /\ fs.entries[i].name = LIB_VERSIONED_FILENAME
           /\ fs.entries[i].kind = "dir"
    /\ Len(paths.onnxruntime_path) >= 3
    /\ \E i \in EntriesNamed(fs, LIB_VERSIONED_FILENAME, "files") :
           path_of(fs, i) = paths.onnxruntime_path
    /\ main_pc = "find_dict"

\* raw holds a bracket token "[digits]" starting at position a.
TokenAt(raw, a) ==
    /\ raw[a] = "["
    /\ \E j \in 1..(Len(raw) - a - 1) :
           /\ \A x \in (a + 1)..(a + j) : raw[x] \in Digit
           /\ raw[a + j + 1] = "]"
HasToken(raw) == \E a \in 1..Len(raw) : TokenAt(raw, a)

\* What follows the leading bracket token of raw.
AfterLeadingToken(raw) ==
    LET i == CHOOSE x \in 0..Len(raw) : Blank(SubSeq(raw, 1, x)) /\ raw[x + 1] = "["
        j == CHOOSE y \in 1..Len(raw) :
                /\ raw[i + y + 2] = "]"
                /\ \A x \in (i + 2)..(i + 1 + y) : raw[x] \in Digit
    IN  SubSeq(raw, i + j + 3, Len(raw))

\* text is rest with nothing but whitespace cut off its ends.
TrimOf(rest, text) ==
    \E a \in 0..Len(rest), b \in 0..Len(rest) :
        /\ a + b <= Len(rest)
        /\ Blank(SubSeq(rest, 1, a))
        /\ Blank(SubSeq(rest, Len(rest) - b + 1, Len(rest)))
        /\ text = SubSeq(rest, a + 1, Len(rest) - b)

\* Part of C15: a payload whose bracket tokens all come after a character
\* that is not whitespace gets the default style and is spoken whole.
C15_MidStringToken ==
    \A h \in Frames :
        (HasToken(h.msg) /\ ~LeadingToken(h.msg))
            => h.style_id = default_style_id /\ h.text = h.msg
\* Part of C15: when further tokens follow the leading one, the leading one
\* sets the style and the others stay in the text.
C15_FirstTokenOnly ==
    \A h \in Frames :
        (LeadingToken(h.msg) /\ HasToken(AfterLeadingToken(h.msg)))
            => /\ h.style_id = LeadingNumber(h.msg)
               /\ TrimOf(AfterLeadingToken(h.msg), h.text)
               /\ HasToken(h.text)
\* C15: the selector is anchored at the start: a "[n]" preceded by a
\* character that is not whitespace is no selector, and of several tokens
\* only the leading one sets the style while the later ones stay in the
\* spoken text.
C15_SelectorAnchored == C15_MidStringToken /\ C15_FirstTokenOnly

\* Parts of C16.  Once the node spins, no step writes the default style,
\* the engine or the paths; a message without a leading token is decoded
\* and synthesized with the default style.
C16_HandlingWritesNothing ==
    main_pc = "spin" => UNCHANGED <<default_style_id, engine, paths, fs>>
C16_DefaultApplies ==
    \A h \in Frames :
        (h.pc # "returned_empty_data" /\ ~LeadingToken(h.msg))
            => /\ h.style_id = default_style_id
               /\ \A x \in DOMAIN h.tts_calls : h.tts_calls[x].style_id = default_style_id
\* C16: handling a message, with or without a "[n]" prefix and whether it
\* succeeds or fails, leaves the default style and the engine as the
\* start-up set them, so a later message without a prefix is synthesized
\* with the default style.
C16_OverrideDoesNotPersist ==
    []C16_DefaultApplies /\ [][C16_HandlingWritesNothing]_vars
\* C16 witness: a message with the prefix "[2]" was synthesized in style 2,
\* and the next message, without a prefix, has been synthesized in the
\* default style 1.
C16_Witness ==
    /\ LeadingToken(last.msg)
    /\ last.tts_calls # << >>
    /\ last.tts_calls[1].style_id = 2
    /\ default_style_id = 1
    /\ \E h \in running :
           /\ ~LeadingToken(h.msg)
           /\ h.tts_calls # << >>
           /\ h.tts_calls[1].style_id = 1

\* C17: whenever the synthesis call is about to be made or has been made,
\* its text is a non-empty string and its style is a non-negative integer,
\* the default style being non-negative.
C17_StyledTextAtSynthesis ==
    default_style_id >= 0
        => \A h \in Frames :
               /\ h.pc = "tts" => h.text # << >> /\ h.style_id \in Nat
               /\ \A x \in DOMAIN h.tts_calls :
                      /\ h.tts_calls[x].text # << >>
                      /\ h.tts_calls[x].style_id \in Nat
                      /\ h.tts_calls[x].text = h.text
                      /\ h.tts_calls[x].style_id = h.style_id
\* C17 witness: the payload "[0]a" has been synthesized as the text "a" in
\* style 0, the default style being 1.
C17_Witness ==
    \E h \in running :
        /\ h.msg = <<"[", "0", "]", "a">>
        /\ h.tts_calls = <<[text |-> <<"a">>, style_id |-> 0]>>
        /\ default_style_id = 1

Stopped == main_pc \in {"finally", "shutdown", "exited"}

\* Parts of C18.  After spin has stopped no callback is in progress and
\* none can start; the node is destroyed before rclpy is shut down, and both
\* before main() returns; neither release step can be blocked.
C18_Released ==
    /\ Stopped
          => /\ StartupComplete
             /\ running = {}
             /\ ~ENABLED Handle
             /\ \A raw_data \in Utterances : ~ENABLED Publish(raw_data)
    /\ main_pc = "finally" => ENABLED DestroyNode
    /\ main_pc = "shutdown" => node_state = "destroyed" /\ ENABLED RclpyShutdown
    /\ rclpy_state = "shutdown" => node_state = "destroyed"
    /\ node_state = "destroyed" => ~subscribed /\ queue = << >>
    /\ main_pc = "exited"
          => /\ node_state = "destroyed"
             /\ rclpy_state = "shutdown"
             /\ ~ENABLED Next
C18_StopStep ==
    /\ (main_pc = "spin" /\ main_pc' # "spin") => main_pc' = "finally" /\ running' = {}
    /\ Stopped
          => /\ Stopped'
             /\ UNCHANGED <<running, last, engine>>
             /\ main_pc' = "exited" => node_state = "destroyed" /\ rclpy_state' = "shutdown"
\* C18: once the node has started, whenever spin stops, with or without a
\* callback in progress, the node is destroyed and rclpy is shut down before
\* main() returns, and no message is handled after the stop.
C18_ShutdownReleases == []C18_Released /\ [][C18_StopStep]_vars
\* C18 witness: spin was interrupted during a playback; the process has
\* exited with the node destroyed and rclpy shut down.
C18_Witness ==
    /\ main_pc = "exited"
    /\ last.pc = "abandoned"
    /\ last.play_calls # << >>
    /\ node_state = "destroyed"
    /\ rclpy_state = "shutdown"
    /\ queue = << >>

Discarded(h) == h.pc \in {"returned_empty_data", "returned_empty_text"}

\* C19: a handling that discards its message, because the payload is empty
\* or because the decoded text is empty, writes a log entry before it
\* returns, and raises nothing.
C19_DiscardLogged ==
    \A h \in Frames :
        Discarded(h)
            => /\ h.log # << >>
               /\ h \notin running
               /\ h.tts_calls = << >>
               /\ main_pc = "spin"

====
